---- MODULE Spec2Model ----
(***************************************************************************)
(* PyMzn, pymzn/mzn/output.py: the solution-stream parser SolutionParser   *)
(* (line source -> solver filter -> _split_solns -> dzn2dict -> queue) and *)
(* the lazily populated result collection Solutions.                       *)
(*                                                                         *)
(* Text is modelled by TLC strings: a block is the real newline-joined     *)
(* string.  A solution is a string: the block itself in the raw output     *)
(* modes, and the image of the block under dzn2dict in 'dict' mode.        *)
(* Python's None is the string "None" where a string is expected.          *)
(***************************************************************************)
EXTENDS Naturals, Sequences, FiniteSets, TLC

\* ------------------------------------------------------------------ bounds
\* Lines pulled from proc.readlines() in one invocation of the driver.
MaxLines == 3
\* Solutions already in the queue handed to Solutions(queue, keep=...).
MaxPre == 2
\* Driver invocations on the one SolutionParser instance.
MaxParses == 2
\* Traversals of one result open at once.
MaxIters == 2
\* Nested calls the interpreter allows before it raises RecursionError.
MaxDepth == 3

None == "None"

\* ----------------------------------------------------------- marker tokens
SOLN_SEP == "----------"
SEARCH_COMPLETE == "=========="
UNSATISFIABLE == "=====UNSATISFIABLE====="
UNKNOWN == "=====UNKNOWN====="
UNBOUNDED == "=====UNBOUNDED====="
UNSATorUNBOUNDED == "=====UNSATorUNBOUNDED====="
ERROR == "=====ERROR====="

FailureMarkers == {UNSATISFIABLE, UNKNOWN, UNBOUNDED, UNSATorUNBOUNDED, ERROR}

\* ------------------------------------------------------------- input lines
\* The lines the external process may print: two well-formed assignment
\* lines (one padded with whitespace), one line dzn2dict cannot parse, a
\* whitespace-only line, the seven markers, and a padded separator.
PaddedContent == " b = 2; "
PaddedSep == " ---------- "
MalformedLine == "x = ;"
ContentLines == {"a = 1;", PaddedContent, MalformedLine}
BlankLines == {"  "}
Lines ==
    ContentLines \cup BlankLines \cup FailureMarkers
        \cup {SOLN_SEP, PaddedSep, SEARCH_COMPLETE}

\* str.strip() on the lines above.
strip(line) ==
    CASE line = PaddedContent -> "b = 2;"
      [] line = PaddedSep -> SOLN_SEP
      [] line = "  " -> ""
      [] OTHER -> line

\* '\n'.join(_buffer)
RECURSIVE join(_)
join(buf) ==
    IF buf = <<>> THEN ""
    ELSE IF Len(buf) = 1 THEN buf[1]
    ELSE buf[1] \o "\n" \o join(Tail(buf))

\* ------------------------------------------------------------- exceptions
MiniZincErrors ==
    {"MiniZincUnknownError", "MiniZincUnsatisfiableError",
     "MiniZincUnboundedError", "MiniZincUnsatOrUnboundedError",
     "MiniZincGenericError", "MalformedModelFile"}

\* `except MiniZincError`: the classes of pymzn.exceptions, not the builtins.
IsMiniZincError(kind) == kind \in MiniZincErrors

NoExc == [kind |-> None, mzn_file |-> None, stderr |-> None]

\* An exception instance as raised: `raise MiniZincUnknownError` builds it
\* with no arguments.
Raised(kind) == [kind |-> kind, mzn_file |-> None, stderr |-> None]

\* The model file of the parser and the captured stderr of the process.
MznFile == "model.mzn"
StderrData == "stderr text"

\* err._set(self.mzn_file, proc.stderr_data)
ExcSet(exc, file, data) == [exc EXCEPT !.mzn_file = file, !.stderr = data]

\* ------------------------------------------------------------- collaborators
\* solver.parse_out(): the default solver filter passes each line through.
solver_parse(line) == line

\* dzn2dict: the mapping decoded from a block; raises on malformed text.
RECURSIVE HasMalformed(_)
HasMalformed(buf) ==
    IF buf = <<>> THEN FALSE
    ELSE strip(buf[1]) = MalformedLine \/ HasMalformed(Tail(buf))

dzn2dict(block) == "dict{" \o block \o "}"

OutputModes == {"dict", "dzn"}

\* --------------------------------------------------------------- state
VARIABLES
    output_mode,      \* SolutionParser.output_mode
    parser_complete,  \* SolutionParser.complete
    parser_stats,     \* SolutionParser.stats
    pc,               \* the driver: "idle", "running", "returned", "raised"
    entry,            \* how the driver was entered: "parse" or "_collect"
    parses,           \* driver invocations started on this parser
    consumed,         \* lines pulled from proc.readlines() in this invocation
    _buffer,          \* _split_solns: the block accumulator
    split_at,         \* _split_solns: the yield it is suspended at
    emitted,          \* blocks _split_solns has yielded in this invocation
    exc,              \* the exception that left the driver, or NoExc
    _queue,           \* Solutions._queue: the queue given at construction
    _keep,            \* Solutions._keep
    _solns,           \* Solutions._solns (the list; None when not _keep)
    _n_solns,         \* Solutions._n_solns
    complete,         \* Solutions.complete
    stats,            \* Solutions.stats
    handle,           \* the caller holds a reference to the Solutions object
    appended,         \* every solution put into the queue so far, in order
    iters,            \* the traversals the caller has opened
    last,             \* the caller's last operation on the result
    call,             \* minizinc(): the arguments of the call, or NoCall
    mzn_pc,           \* minizinc(): "idle", "compiled", "returned", "raised"
    disk,             \* minizinc(): the generated files that exist
    mzn_exc,          \* minizinc(): the exception that left it, or None
    returned          \* minizinc(): the value returned, or None

parser_vars == <<output_mode, parser_complete, parser_stats>>
driver_vars == <<pc, entry, parses, consumed, _buffer, split_at, emitted, exc>>
solns_vars == <<_queue, _keep, _solns, _n_solns, complete, stats>>
caller_vars == <<handle, appended, iters, last>>
minizinc_vars == <<call, mzn_pc, disk, mzn_exc, returned>>
vars == <<parser_vars, driver_vars, solns_vars, caller_vars, minizinc_vars>>

\* ------------------------------------------------------------ Solutions
\* The attributes a Solutions object has: those __init__ sets, and the
\* `statistics` property.
SolutionsAttrs ==
    {"_queue", "_keep", "_solns", "_n_solns", "complete", "stats",
     "statistics"}

\* Attribute lookup on a Solutions object: AttributeError when absent.
HasAttr(name) == name \in SolutionsAttrs

\* Solutions.__init__(queue, keep=keep)
SolutionsInit(queue, keep) ==
    /\ _queue' = queue
    /\ _keep' = keep
    /\ _solns' = <<>>
    /\ _n_solns' = 0
    /\ complete' = FALSE
    /\ stats' = None

\* Solutions.__len__
len == _n_solns

\* -------------------------------------------------------- _split_solns
\* (mutant) a search-complete line that leaves the accumulator as it is.
BufferKeptAtComplete(b0) == b0

\* The accumulator after a search-complete line: `_buffer = []`.
BufferAtComplete(b0) == <<>>

\* (mutant) a test that takes no line for blank.
NeverBlank(s) == FALSE

\* `elif line:` fails: the trimmed line is empty.
IsBlank(s) == s = ""

\* (mutant) the line kept as it arrived.
KeptVerbatim(line) == line

\* The line that goes into the accumulator: `line = line.strip()` rebinds
\* `line`, so `_buffer.append(line)` appends the trimmed text.
Kept(line) == strip(line)

\* (mutant) a line put in front of the accumulator.
AccumulateInFront(b0, x) == <<x>> \o b0

\* `_buffer.append(line)`
Accumulate(b0, x) == Append(b0, x)

\* One send(line) to the _split_solns generator suspended at `at` with the
\* accumulator `buf`: what it yields or raises, and where it suspends next.
\* Suspended at the yield of line 142, it first runs line 143.
SplitStep(buf, at, line) ==
    LET b0 == IF at = "L142" THEN <<>> ELSE buf
        s == strip(line)
        quiet == [emit |-> FALSE, block |-> None, lines |-> <<>>,
                  buffer |-> b0, at |-> "L160", complete |-> FALSE,
                  raise |-> None]
    IN CASE s = SOLN_SEP ->
              [quiet EXCEPT !.emit = TRUE, !.block = join(b0),
                            !.lines = b0, !.at = "L142"]
         [] s = SEARCH_COMPLETE ->
              [quiet EXCEPT !.complete = TRUE, !.buffer = BufferAtComplete(b0)]
         [] s = UNKNOWN -> [quiet EXCEPT !.raise = "MiniZincUnknownError"]
         [] s = UNSATISFIABLE ->
              [quiet EXCEPT !.raise = "MiniZincUnsatisfiableError"]
         [] s = UNBOUNDED -> [quiet EXCEPT !.raise = "MiniZincUnboundedError"]
         [] s = UNSATorUNBOUNDED ->
              [quiet EXCEPT !.raise = "MiniZincUnsatOrUnboundedError"]
         [] s = ERROR -> [quiet EXCEPT !.raise = "MiniZincGenericError"]
         [] s \notin FailureMarkers \cup {SOLN_SEP, SEARCH_COMPLETE}
                /\ ~IsBlank(s) ->
              [quiet EXCEPT !.buffer = Accumulate(b0, Kept(line))]
         [] OTHER -> quiet

\* --------------------------------------------------------- _parse_lines
\* One send(line) to _parse_lines: the solver filter, then the splitter,
\* then dzn2dict on an emitted block in 'dict' mode.  `soln` is the value
\* yielded (None: nothing), `raise` the exception that escapes, `decoded`
\* whether dzn2dict was called.
ParseLineStep(buf, at, mode, line) ==
    LET r == SplitStep(buf, at, solver_parse(line))
    IN IF r.raise # None
       THEN [split |-> r, yields |-> FALSE, soln |-> None, raise |-> r.raise,
             decoded |-> FALSE]
       ELSE IF ~r.emit
       THEN [split |-> r, yields |-> FALSE, soln |-> None, raise |-> None,
             decoded |-> FALSE]
       ELSE IF mode # "dict"
       THEN [split |-> r, yields |-> TRUE, soln |-> r.block, raise |-> None,
             decoded |-> FALSE]
       ELSE IF HasMalformed(r.lines)
       THEN [split |-> r, yields |-> FALSE, soln |-> None,
             raise |-> "MalformedModelFile", decoded |-> TRUE]
       ELSE [split |-> r, yields |-> TRUE, soln |-> dzn2dict(r.block),
             raise |-> None, decoded |-> TRUE]

\* ------------------------------------------------------------- _collect
\* (mutant) an except clause that raises again without calling _set.
CollectExceptNoSet(kind) == Raised(kind)

\* The except clause of _collect: a MiniZincError is given the model file
\* and the captured stderr and raised again; anything else passes through.
CollectExcept(kind) ==
    IF IsMiniZincError(kind)
    THEN ExcSet(Raised(kind), MznFile, StderrData)
    ELSE Raised(kind)

\* solns.queue.put(soln): the result of the attribute lookup and the put.
CollectPut(queue, soln) ==
    IF HasAttr("queue")
    THEN [raise |-> None, queue |-> Append(queue, soln)]
    ELSE [raise |-> "AttributeError", queue |-> queue]

\* (mutant) a driver that goes on with the next line after a failure.
DriverRetries == pc \in {"running", "raised"}

\* The driver stops pulling lines once an exception has left it.
DriverRuns == pc = "running"

NoOp == [op |-> "none", exc |-> None, ret |-> None]

\* The first k of the solutions a producer put before handing the queue over.
Pre(k) == [i \in 1..k |-> IF i = 1 THEN "s1" ELSE IF i = 2 THEN "s2"
                           ELSE IF i = 3 THEN "s3" ELSE "s4"]

NewRun(how) ==
    /\ pc' = "running"
    /\ entry' = how
    /\ parses' = parses + 1
    /\ consumed' = <<>>
    /\ _buffer' = <<>>
    /\ split_at' = "L138"
    /\ emitted' = <<>>
    /\ exc' = NoExc
    /\ iters' = <<>>
    /\ last' = NoOp
    /\ UNCHANGED parser_vars
    /\ UNCHANGED minizinc_vars

\* SolutionParser.parse(proc), up to the call of _collect: a fresh Queue and
\* a Solutions over it; the caller gets the result only when parse returns.
Parse ==
    /\ pc # "running"
    /\ parses < MaxParses
    /\ NewRun("parse")
    /\ SolutionsInit(<<>>, TRUE)
    /\ handle' = FALSE
    /\ appended' = <<>>

\* SolutionParser._collect(solns, proc) run for a caller that did the
\* construction of parse itself, with its own keep: Solutions(Queue(),
\* keep=keep).  That caller holds the result while the driver runs.
Collect(keep) ==
    /\ pc = "idle"
    /\ parses < MaxParses
    /\ NewRun("_collect")
    /\ SolutionsInit(<<>>, keep)
    /\ handle' = TRUE
    /\ appended' = <<>>

\* Solutions(queue, keep=keep) over a queue into which its producer has put
\* k solutions; no driver is attached.
Construct(keep, k) ==
    /\ pc = "idle"
    /\ ~handle
    /\ SolutionsInit(Pre(k), keep)
    /\ handle' = TRUE
    /\ appended' = Pre(k)
    /\ UNCHANGED <<parser_vars, driver_vars, iters, last>>
    /\ UNCHANGED minizinc_vars

\* One round of the loops of _collect and _parse: pull `line`, send it down
\* the pipeline, put an emitted solution into the queue.
ReadLine(line) ==
    /\ DriverRuns
    /\ Len(consumed) < MaxLines
    /\ LET r == ParseLineStep(_buffer, split_at, output_mode, line)
           put == CollectPut(_queue, r.soln)
           raise == IF r.raise # None THEN r.raise
                    ELSE IF r.yields THEN put.raise ELSE None
       IN /\ consumed' = Append(consumed, line)
          /\ _buffer' = r.split.buffer
          /\ split_at' = r.split.at
          /\ parser_complete' = (parser_complete \/ r.split.complete)
          /\ emitted' = IF r.split.emit THEN Append(emitted, r.split.block)
                        ELSE emitted
          /\ _queue' = IF r.yields THEN put.queue ELSE _queue
          /\ appended' = IF r.yields /\ put.raise = None
                         THEN Append(appended, r.soln) ELSE appended
          /\ exc' = IF raise # None THEN CollectExcept(raise) ELSE exc
          /\ pc' = IF raise # None THEN "raised" ELSE pc
    /\ UNCHANGED <<output_mode, parser_stats, entry, parses>>
    /\ UNCHANGED <<_keep, _solns, _n_solns, complete, stats>>
    /\ UNCHANGED <<handle, iters, last>>
    /\ UNCHANGED minizinc_vars

\* proc.readlines() is exhausted: _collect copies complete and stats to the
\* result and returns; parse returns the result to its caller.
EndOfStream ==
    /\ DriverRuns
    /\ complete' = parser_complete
    /\ stats' = parser_stats
    /\ pc' = "returned"
    /\ handle' = TRUE
    /\ UNCHANGED <<parser_vars, entry, parses, consumed, _buffer, split_at,
                   emitted, exc>>
    /\ UNCHANGED <<_queue, _keep, _solns, _n_solns, appended, iters, last>>
    /\ UNCHANGED minizinc_vars

\* ------------------------------------------------- Solutions: consumption
\* Solutions._fetch_all(): _fetch run to its end.  The loop condition reads
\* self.queue; each solution taken is retained when keep and counted.
FetchAll(queue, keep, solns, n) ==
    IF ~HasAttr("queue")
    THEN [raise |-> "AttributeError", queue |-> queue, solns |-> solns,
          n |-> n]
    ELSE [raise |-> None, queue |-> <<>>,
          solns |-> IF keep THEN solns \o queue ELSE solns,
          n |-> n + Len(queue)]

\* One next() on the generator returned by _fetch().
FetchNext(queue, keep, solns, n) ==
    IF ~HasAttr("queue")
    THEN [raise |-> "AttributeError", ret |-> None, queue |-> queue,
          solns |-> solns, n |-> n]
    ELSE IF queue = <<>>
    THEN [raise |-> "StopIteration", ret |-> None, queue |-> queue,
          solns |-> solns, n |-> n]
    ELSE [raise |-> None, ret |-> Head(queue), queue |-> Tail(queue),
          solns |-> IF keep THEN Append(solns, Head(queue)) ELSE solns,
          n |-> n + 1]

\* A traversal: its kind, the solutions it has delivered, whether it has
\* ended and the exception that ended it.
NewIter(kind) ==
    [kind |-> kind, idx |-> 0, done |-> FALSE, end |-> None, out |-> <<>>]

\* Solutions.__iter__: with keep, drain the queue and iterate the retained
\* list; without, hand out the _fetch() generator, not yet started.
Iter ==
    /\ handle
    /\ Len(iters) < MaxIters
    /\ LET f == FetchAll(_queue, _keep, _solns, _n_solns)
       IN IF _keep
          THEN /\ _queue' = f.queue
               /\ _solns' = f.solns
               /\ _n_solns' = f.n
               /\ iters' = IF f.raise = None
                           THEN Append(iters, NewIter("list")) ELSE iters
               /\ last' = [op |-> "iter", exc |-> f.raise, ret |-> None]
          ELSE /\ iters' = Append(iters, NewIter("gen"))
               /\ last' = [op |-> "iter", exc |-> None, ret |-> None]
               /\ UNCHANGED <<_queue, _solns, _n_solns>>
    /\ UNCHANGED <<parser_vars, driver_vars, _keep, complete, stats, handle,
                   appended>>
    /\ UNCHANGED minizinc_vars

\* next() on the i-th open traversal: a list iterator over the retained
\* list, or the _fetch() generator.  A generator that raised is finished.
NextItem(i) ==
    /\ handle
    /\ i \in 1..Len(iters)
    /\ LET it == iters[i]
           g == FetchNext(_queue, _keep, _solns, _n_solns)
       IN IF it.done
          THEN /\ last' = [op |-> "next", exc |-> "StopIteration",
                           ret |-> None]
               /\ UNCHANGED <<iters, _queue, _solns, _n_solns>>
          ELSE IF it.kind = "list"
          THEN /\ UNCHANGED <<_queue, _solns, _n_solns>>
               /\ IF it.idx < Len(_solns)
                  THEN /\ iters' = [iters EXCEPT
                                      ![i].idx = it.idx + 1,
                                      ![i].out = Append(it.out,
                                                        _solns[it.idx + 1])]
                       /\ last' = [op |-> "next", exc |-> None,
                                   ret |-> _solns[it.idx + 1]]
                  ELSE /\ iters' = [iters EXCEPT ![i].done = TRUE,
                                                  ![i].end = "StopIteration"]
                       /\ last' = [op |-> "next", exc |-> "StopIteration",
                                   ret |-> None]
          ELSE /\ _queue' = g.queue
               /\ _solns' = g.solns
               /\ _n_solns' = g.n
               /\ iters' = IF g.raise = None
                           THEN [iters EXCEPT ![i].out = Append(it.out, g.ret)]
                           ELSE [iters EXCEPT ![i].done = TRUE,
                                              ![i].end = g.raise]
               /\ last' = [op |-> "next", exc |-> g.raise, ret |-> g.ret]
    /\ UNCHANGED <<parser_vars, driver_vars, _keep, complete, stats, handle,
                   appended>>
    /\ UNCHANGED minizinc_vars

\* (mutant) indexing allowed whatever the retention mode.
AlwaysAddressable(keep) == TRUE

\* The test of __getitem__: direct addressing needs the retained list.
Addressable(keep) == keep

\* Solutions.__getitem__(key) for an index key >= 0.
GetItemStep(queue, keep, solns, n, key) ==
    IF ~Addressable(keep)
    THEN [raise |-> "RuntimeError", ret |-> None, queue |-> queue,
          solns |-> solns, n |-> n]
    ELSE LET f == FetchAll(queue, keep, solns, n)
         IN IF f.raise # None
            THEN [raise |-> f.raise, ret |-> None, queue |-> f.queue,
                  solns |-> f.solns, n |-> f.n]
            ELSE IF key < Len(f.solns)
            THEN [raise |-> None, ret |-> f.solns[key + 1], queue |-> f.queue,
                  solns |-> f.solns, n |-> f.n]
            ELSE [raise |-> "IndexError", ret |-> None, queue |-> f.queue,
                  solns |-> f.solns, n |-> f.n]

GetItem(key) ==
    /\ handle
    /\ LET g == GetItemStep(_queue, _keep, _solns, _n_solns, key)
       IN /\ _queue' = g.queue
          /\ _solns' = g.solns
          /\ _n_solns' = g.n
          /\ last' = [op |-> "getitem", exc |-> g.raise, ret |-> g.ret]
    /\ UNCHANGED <<parser_vars, driver_vars, _keep, complete, stats, handle,
                   appended, iters>>
    /\ UNCHANGED minizinc_vars

\* The text of a list of solutions: repr(list) and str(list) give the same.
RECURSIVE ItemsText(_)
ItemsText(solns) ==
    IF solns = <<>> THEN ""
    ELSE IF Len(solns) = 1 THEN "'" \o solns[1] \o "'"
    ELSE "'" \o Head(solns) \o "', " \o ItemsText(Tail(solns))

ListText(solns) == "[" \o ItemsText(solns) \o "]"

\* Solutions.__repr__ / __str__ entered at nesting `depth`: with keep, drain
\* the queue and render the retained list; without, repr(self) / str(self)
\* enters the same method again, one level deeper, until the interpreter
\* stops the recursion.
RECURSIVE RenderStep(_, _, _, _, _)
RenderStep(queue, keep, solns, n, depth) ==
    IF depth > MaxDepth
    THEN [raise |-> "RecursionError", ret |-> None, queue |-> queue,
          solns |-> solns, n |-> n]
    ELSE IF keep
    THEN LET f == FetchAll(queue, keep, solns, n)
         IN [raise |-> f.raise,
             ret |-> IF f.raise = None THEN ListText(f.solns) ELSE None,
             queue |-> f.queue, solns |-> f.solns, n |-> f.n]
    ELSE RenderStep(queue, keep, solns, n, depth + 1)

\* repr(solns) or str(solns) by the caller.
Render(fn) ==
    /\ handle
    /\ LET r == RenderStep(_queue, _keep, _solns, _n_solns, 1)
       IN /\ _queue' = r.queue
          /\ _solns' = r.solns
          /\ _n_solns' = r.n
          /\ last' = [op |-> fn, exc |-> r.raise, ret |-> r.ret]
    /\ UNCHANGED <<parser_vars, driver_vars, _keep, complete, stats, handle,
                   appended, iters>>
    /\ UNCHANGED minizinc_vars

\* ------------------------------------------------------------ minizinc()
\* The one file minizinc() itself generates: the compiled model, written to
\* NamedTemporaryFile(..., suffix='.mzn', delete=False).
GeneratedMzn == "pymzn_.mzn"

\* The `include` argument: absent, a path, a list of paths, or a value of
\* another type.
IncludeArgs == {None, "str", "list", "invalid"}

\* The `keep` entry of pymzn.config: absent, or a value that overrides the
\* argument.
ConfigKeep == {None, "True", "False"}

\* The arguments of a call of minizinc() that its control flow depends on,
\* with what the configuration and the solver contribute.
Calls ==
    [keep : BOOLEAN, config_keep : ConfigKeep, include : IncludeArgs,
     output_vars : BOOLEAN, all_solutions : BOOLEAN, support_all : BOOLEAN]

\* The defaults of the signature.
DefaultCall ==
    [keep |-> FALSE, config_keep |-> None, include |-> None,
     output_vars |-> FALSE, all_solutions |-> FALSE, support_all |-> TRUE]

\* `keep = config.get('keep', keep)`
Keep(c) == IF c.config_keep = None THEN c.keep ELSE c.config_keep = "True"

\* The names bound in solve() when line 408 is evaluated: its parameters
\* and the locals assigned above that line.
SolveLocals ==
    {"solver", "mzn_file", "dzn_files", "data", "stdlib_dir", "globals_dir",
     "output_mode", "include", "timeout", "all_solutions", "num_solutions",
     "free_search", "parallel", "seed", "kwargs", "args", "path"}

\* Reading a local of solve(): UnboundLocalError when it is not bound.
SolveHasLocal(name) == name \in SolveLocals

\* solve(), up to line 408: the exception it raises, or None when it goes
\* on.  `keep_data = config.get('keep', keep_data)` evaluates the local
\* keep_data, which solve() assigns only there, before it is bound.
SolveRaises(c) ==
    IF c.include = "invalid" THEN "TypeError"
    ELSE IF ~SolveHasLocal("keep_data") THEN "UnboundLocalError"
    ELSE None

\* What parser.parse(proc) can end with: the result, or an exception.
ParseOutcomes == {"solns", "AttributeError"} \cup MiniZincErrors

\* The except clause of minizinc(): a MiniZincError is given the model file
\* and proc.stderr_data and raised again, where `proc` is bound only if
\* solve() returned; any other exception passes through.
ExceptClause(kind, proc_bound) ==
    IF ~IsMiniZincError(kind) THEN kind
    ELSE IF proc_bound THEN kind
    ELSE "UnboundLocalError"

\* The files cleanup() removes: of [mzn_file, data_file, fzn_file, ozn_file]
\* the last three are None in minizinc() and are skipped.
CleanupFiles(keep) == IF keep THEN {} ELSE {GeneratedMzn}

\* minizinc(...), up to the try statement: the checks of the arguments,
\* then the compiled model written to the generated file.
MinizincCall(c) ==
    /\ mzn_pc = "idle"
    /\ call' = c
    /\ IF \/ c.all_solutions /\ ~c.support_all
          \/ output_mode # "dict" /\ c.output_vars
       THEN /\ mzn_pc' = "raised"
            /\ mzn_exc' = "ValueError"
            /\ UNCHANGED disk
       ELSE /\ mzn_pc' = "compiled"
            /\ disk' = disk \cup {GeneratedMzn}
            /\ UNCHANGED mzn_exc
    /\ UNCHANGED returned
    /\ UNCHANGED <<parser_vars, driver_vars, solns_vars, caller_vars>>

\* The try statement, cleanup and return of minizinc(); `p` is how
\* parser.parse(proc) would end.
MinizincTry(p) ==
    /\ mzn_pc = "compiled"
    /\ LET s == SolveRaises(call)
           left == IF s # None THEN ExceptClause(s, FALSE)
                   ELSE IF p # "solns" THEN ExceptClause(p, TRUE)
                   ELSE None
       IN IF left # None
          THEN /\ mzn_pc' = "raised"
               /\ mzn_exc' = left
               /\ UNCHANGED <<disk, returned>>
          ELSE /\ mzn_pc' = "returned"
               /\ disk' = disk \ CleanupFiles(Keep(call))
               /\ returned' = p
               /\ UNCHANGED mzn_exc
    /\ UNCHANGED call
    /\ UNCHANGED <<parser_vars, driver_vars, solns_vars, caller_vars>>

MinizincNext ==
    \/ \E c \in Calls : MinizincCall(c)
    \/ \E p \in ParseOutcomes : MinizincTry(p)

\* ------------------------------------------------------- specification
Init ==
    /\ output_mode \in OutputModes
    /\ parser_complete = FALSE
    /\ parser_stats = None
    /\ pc = "idle"
    /\ entry = None
    /\ parses = 0
    /\ consumed = <<>>
    /\ _buffer = <<>>
    /\ split_at = "L138"
    /\ emitted = <<>>
    /\ exc = NoExc
    /\ _queue = <<>>
    /\ _keep = TRUE
    /\ _solns = <<>>
    /\ _n_solns = 0
    /\ complete = FALSE
    /\ stats = None
    /\ handle = FALSE
    /\ appended = <<>>
    /\ iters = <<>>
    /\ last = NoOp
    /\ call = DefaultCall
    /\ mzn_pc = "idle"
    /\ disk = {}
    /\ mzn_exc = None
    /\ returned = None

Next ==
    \/ Parse
    \/ \E keep \in BOOLEAN : Collect(keep)
    \/ \E keep \in BOOLEAN, k \in 0..MaxPre : Construct(keep, k)
    \/ \E line \in Lines : ReadLine(line)
    \/ EndOfStream
    \/ Iter
    \/ \E i \in 1..MaxIters : NextItem(i)
    \/ \E key \in 0..MaxPre : GetItem(key)
    \/ \E fn \in {"repr", "str"} : Render(fn)

Spec == Init /\ [][Next]_vars

\* Calls of minizinc().
SpecMinizinc == Init /\ [][MinizincNext]_vars

\* ------------------------------------------------- reading the input back
\* What the properties below say about the lines consumed, computed from
\* the lines themselves and not from the splitter's state.
Last(seq) == seq[Len(seq)]
Front(seq) == SubSeq(seq, 1, Len(seq) - 1)

IsMarker(line) ==
    strip(line) \in FailureMarkers \cup {SOLN_SEP, SEARCH_COMPLETE}
IsSep(line) == strip(line) = SOLN_SEP
IsContent(line) == ~IsMarker(line) /\ strip(line) # ""
WellFormedLine(line) == IsContent(line) /\ strip(line) # MalformedLine

NumSeps(lines) == Cardinality({i \in 1..Len(lines) : IsSep(lines[i])})

SeenComplete(lines) ==
    \E i \in 1..Len(lines) : strip(lines[i]) = SEARCH_COMPLETE

\* The position of the last marker line, 0 when there is none.
LastMarker(lines) ==
    LET M == {i \in 1..Len(lines) : IsMarker(lines[i])}
    IN IF M = {} THEN 0 ELSE CHOOSE i \in M : \A j \in M : j <= i

\* The content lines after the last marker, trimmed, in arrival order.
RECURSIVE Trimmed(_)
Trimmed(lines) ==
    IF lines = <<>> THEN <<>>
    ELSE IF IsContent(lines[1])
    THEN <<strip(lines[1])>> \o Trimmed(Tail(lines))
    ELSE Trimmed(Tail(lines))

SinceLastMarker(lines) ==
    Trimmed(SubSeq(lines, LastMarker(lines) + 1, Len(lines)))

\* Runs of well-formed content lines, each closed by a separator.
BlocksOnly(lines) ==
    \A i \in 1..Len(lines) : WellFormedLine(lines[i]) \/ IsSep(lines[i])

\* N complete blocks and then the search-complete line.
BlocksThenComplete(lines) ==
    /\ lines # <<>>
    /\ strip(Last(lines)) = SEARCH_COMPLETE
    /\ BlocksOnly(Front(lines))
    /\ Len(lines) > 1 => IsSep(lines[Len(lines) - 1])

\* The driver has just pulled a line.
PulledLine == pc = "running" /\ Len(consumed') = Len(consumed) + 1

\* ------------------------------------------------------------- claims

\* C1: parse on a stream of N separator-terminated blocks followed by the
\* search-complete line returns a result with complete = true whose
\* traversal yields exactly N solutions.  As stated: parse does not raise
\* on such a stream, the returned result is complete, starting a traversal
\* does not fail, and a finished traversal has delivered N solutions.
C1_ParseYieldsNSolutions ==
    entry = "parse" =>
        /\ (BlocksOnly(consumed) \/ BlocksThenComplete(consumed))
               => pc # "raised"
        /\ (BlocksThenComplete(consumed) /\ pc = "returned") =>
               /\ complete
               /\ last.op = "iter" => last.exc = None
               /\ \A i \in 1..Len(iters) :
                      iters[i].done =>
                          /\ iters[i].end = "StopIteration"
                          /\ Len(iters[i].out) = NumSeps(consumed)

\* C2, as stated: once a search-complete line has been consumed, no later
\* line makes the splitter emit a block.
C2_NoBlockAfterComplete ==
    [][(PulledLine /\ SeenComplete(consumed)) => emitted' = emitted]_vars

\* C2, amended: a search-complete line emits nothing and empties the
\* accumulator, and the splitter goes on: a separator line consumed after it
\* emits a block, the newline-join of exactly the trimmed content lines
\* consumed since the last marker.
C2_CompleteClearsThenGoesOn ==
    [][PulledLine =>
          LET line == Last(consumed')
          IN /\ strip(line) = SEARCH_COMPLETE =>
                    (emitted' = emitted /\ _buffer' = <<>>)
             /\ (IsSep(line) /\ SeenComplete(consumed)) =>
                    emitted' =
                        Append(emitted, join(SinceLastMarker(consumed)))]_vars

\* C2 witness: a block of content was emitted by a separator that came
\* after the search-complete line.
C2_Witness ==
    /\ Len(consumed) = 3
    /\ strip(consumed[1]) = SEARCH_COMPLETE
    /\ IsContent(consumed[2])
    /\ IsSep(consumed[3])
    /\ emitted = <<strip(consumed[2])>>

\* C3, as stated: after a classified failure has left parse, its caller
\* holds the result and finds in it the solutions emitted before the marker.
C3_ResultQueryableAfterFailure ==
    (entry = "parse" /\ pc = "raised" /\ IsMiniZincError(exc.kind)) =>
        /\ handle
        /\ Len(_solns) + Len(_queue) = Len(emitted)

\* The failure kind the claim gives for each failure marker.
KindOf(marker) ==
    CASE marker = UNSATISFIABLE -> "MiniZincUnsatisfiableError"
      [] marker = UNKNOWN -> "MiniZincUnknownError"
      [] marker = UNBOUNDED -> "MiniZincUnboundedError"
      [] marker = UNSATorUNBOUNDED -> "MiniZincUnsatOrUnboundedError"
      [] marker = ERROR -> "MiniZincGenericError"

\* C4: a failure marker line makes the driver raise the failure kind of
\* that marker, and the exception leaves with the parser's model file and
\* the process's captured stderr set on it.
C4_MarkerRaisesItsKind ==
    (consumed # <<>> /\ strip(Last(consumed)) \in FailureMarkers) =>
        /\ pc = "raised"
        /\ exc = [kind |-> KindOf(strip(Last(consumed))),
                  mzn_file |-> MznFile, stderr |-> StderrData]

\* C4 witness: parse has raised on an UNSATorUNBOUNDED marker that came
\* after content.
C4_Witness ==
    /\ entry = "parse"
    /\ Len(consumed) = 3
    /\ strip(consumed[3]) = UNSATorUNBOUNDED
    /\ IsContent(consumed[1])
    /\ exc.kind = "MiniZincUnsatOrUnboundedError"

\* C5: a failure marker or a decode failure halts the pipeline at once: the
\* failing line appends nothing, and afterwards, within that invocation, no
\* line is pulled or sent down the pipeline, nothing is appended, and the
\* failure stays the outcome (no retry).
C5_FailureHaltsPipeline ==
    [][/\ (pc = "raised" /\ IsMiniZincError(exc.kind) /\ parses' = parses)
             => UNCHANGED <<pc, exc, consumed, _buffer, split_at, emitted,
                            appended, parser_complete>>
       /\ (PulledLine /\ pc' = "raised" /\ IsMiniZincError(exc'.kind))
             => (appended' = appended /\ _queue' = _queue)]_vars

\* C5 witness: the driver has raised on a failure marker with lines left to
\* pull and content in the accumulator.
C5_Witness ==
    /\ pc = "raised"
    /\ exc.kind = "MiniZincUnboundedError"
    /\ Len(consumed) < MaxLines
    /\ _buffer # <<>>

\* C6, as stated: len(result) is at every moment the number of solutions
\* appended so far, traversed or not.
C6_LenCountsAppended == len = Len(appended)

\* The result was built over a queue and no driver appends to it.
NoAppendGoingOn == handle /\ pc = "idle"

\* C7, as stated: in STREAM mode, with no append in between, a first full
\* traversal yields all appended solutions and a second one, begun after
\* it, yields none; both end normally.
C7_StreamSecondPassEmpty ==
    (NoAppendGoingOn /\ ~_keep) =>
        /\ (Len(iters) = 1 /\ iters[1].done) =>
               (iters[1].end = "StopIteration" /\ iters[1].out = appended)
        /\ (Len(iters) = 2 /\ iters[1].out = appended /\ iters[2].done) =>
               (iters[2].end = "StopIteration" /\ iters[2].out = <<>>)

\* C8, as stated: in CACHE mode, with no append in between, every traversal
\* starts without failing, leaves the queue empty and the retained list
\* equal to the appended solutions, and yields that list.
C8_CacheTraversalsReplay ==
    (NoAppendGoingOn /\ _keep /\ last.op \in {"iter", "next"}) =>
        /\ last.exc \in {None, "StopIteration"}
        /\ _queue = <<>>
        /\ _solns = appended
        /\ \A i \in 1..Len(iters) :
               iters[i].done => iters[i].out = appended

\* C9: indexing a STREAM-mode result fails with the RuntimeError of
\* __getitem__ in every state in which the caller holds the result, and
\* leaves the queue, the retained list and the length counter as they were.
C9_StreamIndexingFails ==
    [][(~_keep /\ \E key \in 0..MaxPre : GetItem(key)) =>
          /\ last'.exc = "RuntimeError"
          /\ UNCHANGED <<_queue, _solns, _n_solns>>]_vars

\* C9 witness: indexing has failed on a STREAM-mode result whose queue holds
\* solutions, after a traversal was opened and had ended.
C9_Witness ==
    /\ ~_keep
    /\ last.op = "getitem"
    /\ last.exc = "RuntimeError"
    /\ _queue # <<>>
    /\ Len(iters) = 1
    /\ iters[1].done

\* C10, as stated: in CACHE mode result[i] drains the queue, so that
\* afterwards the queue is empty and the retained list is the appended
\* solutions in order, and returns the i-th of them.
C10_CacheIndexDrains ==
    [][\A key \in 0..MaxPre :
          (_keep /\ key < Len(appended) /\ GetItem(key)) =>
              /\ last'.exc = None
              /\ _queue' = <<>>
              /\ _solns' = appended
              /\ last'.ret = appended[key + 1]]_vars

\* The solution the driver makes of an emitted block in the given mode.
SolnOf(mode, block) == IF mode = "dict" THEN dzn2dict(block) ELSE block

SolnsOf(mode, blocks) ==
    [i \in 1..Len(blocks) |-> SolnOf(mode, blocks[i])]

\* What the consumer has had so far: the retained list with keep, and
\* without it what its (single) traversal has delivered.
Delivered ==
    IF _keep THEN _solns
    ELSE IF iters = <<>> THEN <<>> ELSE iters[1].out

\* C11, as stated: at every state of a driver run, the solutions delivered or
\* retained so far followed by the queue contents are the blocks the
\* splitter has emitted so far, in order, none lost and none twice.
C11_ConsumerSeesEmittedInOrder ==
    (pc # "idle" /\ Len(iters) <= 1 /\ exc.kind # "MalformedModelFile") =>
        Delivered \o _queue = SolnsOf(output_mode, emitted)

\* C12, as stated: with the driver running beside the consumer, a
\* STREAM-mode traversal ends only when the producer has finished and the
\* queue is empty, and then it ends normally.
C12_StreamTraversalWaitsForProducer ==
    (entry = "_collect" /\ ~_keep) =>
        \A i \in 1..Len(iters) :
            iters[i].done =>
                /\ pc # "running"
                /\ _queue = <<>>
                /\ iters[i].end = "StopIteration"

\* C13, as stated: once the producer has finished (end of stream, or a
\* classified failure), the result the caller holds has complete = true
\* exactly when a search-complete line was consumed in that run.
C13_CompleteIsFinal ==
    (handle /\ (pc = "returned" \/ (pc = "raised" /\ IsMiniZincError(exc.kind))))
        => (complete <=> SeenComplete(consumed))

\* The driver run over `lines` from the start of an invocation, as ReadLine
\* does it line by line: the blocks emitted (as text and as lists of lines),
\* the number of calls of the decoder, whether a search-complete line was
\* met, and the exception raised.
RunStart ==
    [buffer |-> <<>>, at |-> "L138", emitted |-> <<>>, blocks |-> <<>>,
     decodes |-> 0, complete |-> FALSE, raise |-> None]

RunStep(st, line) ==
    IF st.raise # None THEN st
    ELSE LET r == ParseLineStep(st.buffer, st.at, output_mode, line)
             put == CollectPut(<<>>, r.soln)
         IN [buffer |-> r.split.buffer,
             at |-> r.split.at,
             emitted |-> IF r.split.emit
                         THEN Append(st.emitted, r.split.block)
                         ELSE st.emitted,
             blocks |-> IF r.split.emit
                        THEN Append(st.blocks, r.split.lines)
                        ELSE st.blocks,
             decodes |-> IF r.decoded THEN st.decodes + 1 ELSE st.decodes,
             complete |-> (st.complete \/ r.split.complete),
             raise |-> IF r.raise # None THEN r.raise
                       ELSE IF r.yields THEN put.raise ELSE None]

RECURSIVE Run(_)
Run(lines) ==
    IF lines = <<>> THEN RunStart
    ELSE RunStep(Run(Front(lines)), Last(lines))

\* `lines` without its blank and whitespace-only lines.
NoBlanks(lines) == SelectSeq(lines, LAMBDA l : strip(l) # "")

\* C14: blank and whitespace-only lines are in no emitted block and cause
\* no emission: the blocks emitted, the search-complete flag and the failure
\* raised on the lines consumed are those of the same lines with the blank
\* ones removed, and no line of an emitted block is empty.
C14_BlankLinesChangeNothing ==
    LET all == Run(consumed)
        nb == Run(NoBlanks(consumed))
    IN /\ emitted = all.emitted
       /\ exc.kind = all.raise
       /\ all.emitted = nb.emitted
       /\ all.complete = nb.complete
       /\ all.raise = nb.raise
       /\ \A i \in 1..Len(all.blocks) :
              \A j \in 1..Len(all.blocks[i]) : all.blocks[i][j] # ""

\* C14 witness: a block was emitted from lines with a whitespace-only line
\* between content and the separator.
C14_Witness ==
    /\ consumed = <<"a = 1;", "  ", SOLN_SEP>>
    /\ emitted = <<"a = 1;">>

C16_ContentKeptVerbatim ==
    [][(PulledLine /\ IsContent(Last(consumed'))) =>
          (_buffer' # <<>> /\ Last(_buffer') = Last(consumed'))]_vars

\* C16, amended: a content line goes into the accumulator trimmed of its
\* leading and trailing whitespace; while the driver runs the accumulator
\* holds the trimmed content lines consumed since the last marker.
C16_ContentKeptTrimmed ==
    [][PulledLine =>
          /\ IsContent(Last(consumed')) =>
                (_buffer' # <<>> /\ Last(_buffer') = strip(Last(consumed')))
          /\ pc' = "running" => _buffer' = SinceLastMarker(consumed')]_vars

\* C16 witness: the padded line ' b = 2; ' is in the accumulator as 'b = 2;'.
C16_Witness ==
    /\ consumed = <<"a = 1;", PaddedContent>>
    /\ _buffer = <<"a = 1;", "b = 2;">>

\* The blocks due for `lines`: one per separator line, joined from the
\* trimmed content lines between the marker before it and itself.
RECURSIVE BlocksOf(_)
BlocksOf(lines) ==
    IF lines = <<>> THEN <<>>
    ELSE IF IsSep(Last(lines))
    THEN Append(BlocksOf(Front(lines)),
                join(SinceLastMarker(Front(lines))))
    ELSE BlocksOf(Front(lines))

\* C17: the content lines accumulated when a search-complete line arrives
\* are dropped: the search-complete line emits no block, and a block emitted
\* by a later separator holds only lines that came after it.
C17_CompleteDropsAccumulated ==
    SeenComplete(consumed) => emitted = BlocksOf(consumed)

\* C17 witness: content, then search-complete, then a separator: the one
\* block emitted is empty.
C17_Witness ==
    /\ consumed = <<"a = 1;", SEARCH_COMPLETE, SOLN_SEP>>
    /\ emitted = <<"">>

\* C18, as stated: every emitted block is in the result, decoded by exactly
\* one call of the decoder in 'dict' mode, and as its unchanged text, with
\* no call of the decoder, in every other mode.
C18_BlocksDecodedOnceOrPassed ==
    (pc # "idle" /\ exc.kind # "MalformedModelFile") =>
        /\ Run(consumed).decodes =
               IF output_mode = "dict" THEN Len(emitted) ELSE 0
        /\ appended = SolnsOf(output_mode, emitted)

\* C20, as stated: a result returned with complete set comes from an
\* invocation whose own stream held a search-complete line.
C20_CompleteIsOfThisInvocation ==
    (pc = "returned" /\ complete) => SeenComplete(consumed)

\* The arguments pass the checks of minizinc() and of solve().
ValidCall(c) ==
    /\ c.include # "invalid"
    /\ ~(c.all_solutions /\ ~c.support_all)
    /\ ~(output_mode # "dict" /\ c.output_vars)

\* C19, as stated: a call of minizinc() with valid arguments and keep false
\* ends either with the result returned and the generated file deleted, or
\* with a MiniZinc error and the generated file in place; with keep true it
\* ends with the generated file in place.
C19_CleanupFollowsKeep ==
    (mzn_pc \in {"returned", "raised"} /\ ValidCall(call)) =>
        IF Keep(call)
        THEN GeneratedMzn \in disk
        ELSE \/ mzn_pc = "returned" /\ GeneratedMzn \notin disk
             \/ /\ mzn_pc = "raised"
                /\ IsMiniZincError(mzn_exc)
                /\ GeneratedMzn \in disk

\* C21, as stated: every separator line consumed yields one solution, the
\* empty block included, and each is appended to the result: the blocks
\* emitted and the solutions appended are as many as the separator lines
\* consumed.
C21_OneSolutionPerSeparator ==
    (pc # "idle" /\ exc.kind # "MalformedModelFile") =>
        /\ Len(emitted) = NumSeps(consumed)
        /\ Len(appended) = NumSeps(consumed)

\* `whole` is `a` and `b` merged, each in its own order.
RECURSIVE IsMerge(_, _, _)
IsMerge(a, b, whole) ==
    IF whole = <<>> THEN a = <<>> /\ b = <<>>
    ELSE \/ a # <<>> /\ Head(a) = Head(whole)
            /\ IsMerge(Tail(a), b, Tail(whole))
         \/ b # <<>> /\ Head(b) = Head(whole)
            /\ IsMerge(a, Tail(b), Tail(whole))

\* C22, as stated: two STREAM-mode traversals of one result, advanced in
\* any interleaving until both have ended, ended by exhaustion; what they
\* delivered, followed by what is still queued, is what was appended, each
\* solution once and each traversal in append order; the length counter is
\* the number delivered to both.
C22_TwoStreamTraversalsShare ==
    (~_keep /\ Len(iters) = 2 /\ iters[1].done /\ iters[2].done) =>
        /\ iters[1].end = "StopIteration"
        /\ iters[2].end = "StopIteration"
        /\ Len(iters[1].out) + Len(iters[2].out) + Len(_queue)
               = Len(appended)
        /\ IsMerge(iters[1].out, iters[2].out,
                   SubSeq(appended, 1, Len(appended) - Len(_queue)))
        /\ _n_solns = Len(iters[1].out) + Len(iters[2].out)

\* C23, as stated: repr and str return: with keep the queue is drained
\* into the retained list and the text is that of the list, without keep
\* the queue, the list and the counter are left as they were.
C23_RenderingReturns ==
    [][(\E fn \in {"repr", "str"} : Render(fn)) =>
          /\ last'.exc = None
          /\ _keep => /\ _queue' = <<>>
                      /\ _solns' = _solns \o _queue
                      /\ last'.ret = ListText(_solns')
          /\ ~_keep => UNCHANGED <<_queue, _solns, _n_solns>>]_vars

\* C24, as stated: the put of _collect and the fetch of _fetch find the
\* queue: no driver run, traversal or other operation on the result ends
\* with AttributeError, and what was put is in the queue or was fetched.
C24_PutAndFetchFindTheQueue ==
    /\ exc.kind # "AttributeError"
    /\ last.exc # "AttributeError"
    /\ \A i \in 1..Len(iters) : iters[i].end # "AttributeError"
    /\ (pc # "idle" /\ exc.kind # "MalformedModelFile") =>
           Len(appended) = Len(emitted)

====
